---- MODULE Spec2Model ----
(***************************************************************************)
(* State-machine model of src/main.py: a minimal ORM over sqlite3.         *)
(* A record type is declared (OrmModelMeta.__new__ / _create_table), an    *)
(* instance is constructed (OrmModel.__init__) and saved (OrmModel.save),  *)
(* and rows are read back (OrmModel.all / OrmModel.filter).  The database  *)
(* file starts empty.  The sqlite3 engine is modelled as far as the        *)
(* statements the code builds exercise it: CREATE TABLE IF NOT EXISTS,     *)
(* INSERT with column affinity, rowid assignment and PRIMARY KEY           *)
(* uniqueness, SELECT * with an equality conjunction.                      *)
(*                                                                         *)
(* The model follows one class object and one instance at a time.  A class *)
(* object is what __new__ leaves on it: its fields and its table name.     *)
(* Work on another type is reached by declaring it again, which leaves an  *)
(* existing table alone; an instance lives from its construction to the    *)
(* next class-level call: it is built, then saved, possibly more than once.*)
(***************************************************************************)
EXTENDS Integers, Sequences, FiniteSets, TLC

VARIABLES cls, inst, tables, ret, openConns, inserted

vars == <<cls, inst, tables, ret, openConns, inserted>>

(***************************************************************************)
(* Bounds of the model.                                                    *)
(***************************************************************************)
MaxRows == 2
MaxOpenConns == 1
MaxCrit == 2

(***************************************************************************)
(* Values: Python objects handed to the ORM and SQLite storage classes.    *)
(* A float is held in tenths (1.5 is n = 15).                              *)
(***************************************************************************)
None == [k |-> "null", n |-> 0, s |-> ""]
IntV(i) == [k |-> "int", n |-> i, s |-> ""]
RealV(t) == [k |-> "real", n |-> t, s |-> ""]
TextV(str) == [k |-> "text", n |-> 0, s |-> str]

\* a check that lets an absent value through
IsInstance_orNone(v, sql_type) ==
    \/ v.k = "null"
    \/ (sql_type = "INTEGER" /\ v.k = "int")
    \/ (sql_type = "TEXT" /\ v.k = "text")
    \/ (sql_type = "REAL" /\ v.k = "real")

\* isinstance(field_value, field.expected_type), main.py line 117
IsInstance(v, sql_type) ==
    CASE sql_type = "INTEGER" -> v.k = "int"
      [] sql_type = "TEXT" -> v.k = "text"
      [] sql_type = "REAL" -> v.k = "real"

\* Python's == on two values (1 == 1.0, None == None, 1 != '1')
IsNum(v) == v.k \in {"int", "real"}
Tenths(v) == IF v.k = "int" THEN 10 * v.n ELSE v.n
PyEq(a, b) == IF IsNum(a) /\ IsNum(b) THEN Tenths(a) = Tenths(b) ELSE a = b

(***************************************************************************)
(* SQLite conversions.                                                     *)
(***************************************************************************)
NumRange == 0 .. 40

\* text rendering of a number
NumToText(v) ==
    IF v.k = "int" THEN ToString(v.n)
    ELSE ToString(v.n \div 10) \o "." \o ToString(v.n % 10)

IntTexts == [i \in NumRange |-> NumToText(IntV(i))]
RealTexts == [t \in NumRange |-> NumToText(RealV(t))]

\* a text that looks like a number, as the number; anything else unchanged
TextToNum(v) ==
    IF v.k # "text" THEN v
    ELSE IF \E i \in NumRange : IntTexts[i] = v.s
         THEN IntV(CHOOSE i \in NumRange : IntTexts[i] = v.s)
    ELSE IF \E t \in NumRange : RealTexts[t] = v.s
         THEN RealV(CHOOSE t \in NumRange : RealTexts[t] = v.s)
    ELSE v

\* column affinity applied to a value on its way into a column
ApplyAffinity(sql_type, v) ==
    CASE sql_type = "TEXT" ->
           IF IsNum(v) THEN TextV(NumToText(v)) ELSE v
      [] sql_type = "INTEGER" ->
           LET x == TextToNum(v)
           IN IF x.k = "real" /\ x.n % 10 = 0 THEN IntV(x.n \div 10) ELSE x
      [] sql_type = "REAL" ->
           LET x == TextToNum(v)
           IN IF x.k = "int" THEN RealV(10 * x.n) ELSE x

\* the comparison  column = ?  (NULL equals nothing)
SqlEq(sql_type, stored, param) ==
    LET p == IF sql_type = "TEXT"
             THEN ApplyAffinity("TEXT", param)
             ELSE TextToNum(param)
    IN /\ stored.k # "null"
       /\ p.k # "null"
       /\ IF IsNum(stored) /\ IsNum(p)
          THEN Tenths(stored) = Tenths(p)
          ELSE stored = p

(***************************************************************************)
(* Field descriptors and the record types the model declares.              *)
(***************************************************************************)
\* OrmInteger / OrmText / OrmFloat with their primary_key flag
OrmInteger(name, primary_key) ==
    [name |-> name, sql_type |-> "INTEGER", primary_key |-> primary_key]
OrmText(name, primary_key) ==
    [name |-> name, sql_type |-> "TEXT", primary_key |-> primary_key]
OrmFloat(name, primary_key) ==
    [name |-> name, sql_type |-> "REAL", primary_key |-> primary_key]

FL_plain == <<OrmText("name", FALSE), OrmInteger("age", FALSE)>>
FL_intpk == <<OrmInteger("id", TRUE), OrmText("name", FALSE)>>
FL_textpk == <<OrmText("code", TRUE), OrmFloat("score", FALSE)>>
FL_name == <<OrmText("name", FALSE)>>
FL_empty == <<>>
FL_twopk == <<OrmInteger("id", TRUE), OrmText("code", TRUE)>>
FL_idcol == <<OrmText("id", FALSE)>>

FieldLists == {FL_plain, FL_intpk, FL_textpk, FL_name, FL_empty, FL_twopk, FL_idcol}

BaseName == "OrmModel"
ClassNames == {"User", "USER"}

\* name.lower(), main.py line 62
Lower(name) ==
    CASE name = "OrmModel" -> "ormmodel"
      [] name = "User" -> "user"
      [] name = "USER" -> "user"

TableNames == {Lower(n) : n \in ClassNames \cup {BaseName}}

\* the class object built by OrmModelMeta.__new__
ClassObject(name, fields) == [fields |-> fields, table |-> Lower(name)]

BaseClass == ClassObject(BaseName, <<>>)

HasPk(fields) == \E i \in 1 .. Len(fields) : fields[i].primary_key

(***************************************************************************)
(* The database: tables of typed columns and rows kept in rowid order.     *)
(***************************************************************************)
NoTable == [exists |-> FALSE, cols |-> <<>>, rows |-> <<>>]

ColNames(t) == {t.cols[i].name : i \in 1 .. Len(t.cols)}
ColIndex(t, name) == CHOOSE i \in 1 .. Len(t.cols) : t.cols[i].name = name

\* the column that aliases the rowid (INTEGER PRIMARY KEY), 0 if none
RowidCol(t) ==
    IF \E i \in 1 .. Len(t.cols) :
           t.cols[i].sql_type = "INTEGER" /\ t.cols[i].qual # ""
    THEN CHOOSE i \in 1 .. Len(t.cols) :
           t.cols[i].sql_type = "INTEGER" /\ t.cols[i].qual # ""
    ELSE 0

MaxRowid(rows) ==
    IF rows = <<>> THEN 0
    ELSE CHOOSE m \in {rows[i].rowid : i \in 1 .. Len(rows)} :
           \A i \in 1 .. Len(rows) : rows[i].rowid <= m

\* rows stay ordered by rowid, the order SELECT * walks the table in
InsertByRowid(rows, r) ==
    LET lo == SelectSeq(rows, LAMBDA x : x.rowid < r.rowid)
        hi == SelectSeq(rows, LAMBDA x : x.rowid > r.rowid)
    IN lo \o <<r>> \o hi

\* CREATE TABLE without IF NOT EXISTS: an existing table is an error
CreateTable_noGuard(db, tname, defs) ==
    IF db[tname].exists
       \/ Cardinality({i \in 1 .. Len(defs) : defs[i].qual # ""}) > 1
       \/ \E i, j \in 1 .. Len(defs) : i # j /\ defs[i].name = defs[j].name
    THEN [outcome |-> "OperationalError", db |-> db]
    ELSE [outcome |-> "ok",
          db |-> [db EXCEPT ![tname] =
                    [exists |-> TRUE, cols |-> defs, rows |-> <<>>]]]

\* CREATE TABLE IF NOT EXISTS <tname> (<defs>)
CreateTableIfNotExists(db, tname, defs) ==
    IF db[tname].exists
    THEN [outcome |-> "ok", db |-> db]
    ELSE IF Cardinality({i \in 1 .. Len(defs) : defs[i].qual # ""}) > 1
    THEN [outcome |-> "OperationalError", db |-> db]
    ELSE IF \E i, j \in 1 .. Len(defs) : i # j /\ defs[i].name = defs[j].name
    THEN [outcome |-> "OperationalError", db |-> db]
    ELSE [outcome |-> "ok",
          db |-> [db EXCEPT ![tname] =
                    [exists |-> TRUE, cols |-> defs, rows |-> <<>>]]]

\* INSERT OR REPLACE: a row with the key of an existing row takes its place
UniqueViolation_orReplace(t, rowid, vals) == FALSE

\* the PRIMARY KEY constraint: the rowid, or the key column's value, is taken
UniqueViolation(t, rowid, vals) ==
    \/ \E i \in 1 .. Len(t.rows) : t.rows[i].rowid = rowid
    \/ \E c \in 1 .. Len(t.cols), i \in 1 .. Len(t.rows) :
          /\ c # RowidCol(t)
          /\ t.cols[c].qual # ""
          /\ SqlEq(t.cols[c].sql_type, t.rows[i].vals[c], vals[c])

\* INSERT INTO <tname> (<names>) VALUES (<values>)
InsertInto(db, tname, names, values) ==
    LET t == db[tname]
        given(c) == \E i \in 1 .. Len(names) : names[i] = t.cols[c].name
        bound(c) == values[CHOOSE i \in 1 .. Len(names) :
                              names[i] = t.cols[c].name]
        rc == RowidCol(t)
        key == IF rc # 0 /\ given(rc)
               THEN ApplyAffinity("INTEGER", bound(rc)) ELSE None
        rowid == IF key.k = "int" THEN key.n ELSE MaxRowid(t.rows) + 1
        stored(c) == IF c = rc THEN IntV(rowid)
                     ELSE IF given(c)
                     THEN ApplyAffinity(t.cols[c].sql_type, bound(c))
                     ELSE None
        vals == [c \in 1 .. Len(t.cols) |-> stored(c)]
    IN IF names = <<>> \/ ~t.exists
       THEN [outcome |-> "OperationalError", db |-> db, row |-> <<>>]
       ELSE IF \E i \in 1 .. Len(names) : names[i] \notin ColNames(t)
       THEN [outcome |-> "OperationalError", db |-> db, row |-> <<>>]
       ELSE IF key.k \notin {"null", "int"}
       THEN [outcome |-> "IntegrityError", db |-> db, row |-> <<>>]
       ELSE IF UniqueViolation(t, rowid, vals)
       THEN [outcome |-> "IntegrityError", db |-> db, row |-> <<>>]
       ELSE [outcome |-> "ok",
             db |-> [db EXCEPT ![tname].rows =
                       InsertByRowid(t.rows, [rowid |-> rowid, vals |-> vals])],
             row |-> vals]

\* SELECT * FROM <tname> [WHERE c1 = ? AND c2 = ? ...]
SelectFrom(db, tname, where, conds) ==
    LET t == db[tname]
        hit(r) == \A i \in 1 .. Len(conds) :
                     LET c == ColIndex(t, conds[i].name)
                     IN SqlEq(t.cols[c].sql_type, r.vals[c], conds[i].value)
        found == SelectSeq(t.rows, hit)
    IN IF (where /\ conds = <<>>) \/ ~t.exists
       THEN [outcome |-> "OperationalError", rows |-> <<>>]
       ELSE IF \E i \in 1 .. Len(conds) : conds[i].name \notin ColNames(t)
       THEN [outcome |-> "OperationalError", rows |-> <<>>]
       ELSE [outcome |-> "ok",
             rows |-> [i \in 1 .. Len(found) |-> found[i].vals]]

(***************************************************************************)
(* Inputs.                                                                 *)
(***************************************************************************)
\* the (name, fields) pairs of the class statements the model runs;
\* a type may also be declared under the base type's own name
DeclInputs ==
    ({"User"} \X FieldLists)
    \cup ({"USER"} \X {FL_plain, FL_intpk, FL_name})
    \cup {<<BaseName, FL_empty>>, <<BaseName, FL_name>>}

FieldNames(fields) == {fields[i].name : i \in 1 .. Len(fields)}

\* values a caller passes for a field: of the field's type and not
ArgValues(sql_type) ==
    CASE sql_type = "INTEGER" -> {IntV(1), IntV(2), TextV("a")}
      [] sql_type = "TEXT" -> {TextV("a"), IntV(1)}
      [] sql_type = "REAL" -> {RealV(15), IntV(1)}

\* keyword arguments: name/value pairs in field order, any field left out
RECURSIVE KwargsFrom(_, _)
KwargsFrom(fields, i) ==
    IF i > Len(fields) THEN {<<>>}
    ELSE LET rest == KwargsFrom(fields, i + 1)
         IN rest \cup
            {<<[name |-> fields[i].name, value |-> v]>> \o kw :
                v \in ArgValues(fields[i].sql_type), kw \in rest}

InitKwargs == [fl \in FieldLists |-> KwargsFrom(fl, 1)]

HasKey(kw, name) == \E i \in 1 .. Len(kw) : kw[i].name = name
\* kwargs.get(name)
Get(kw, name) ==
    IF HasKey(kw, name)
    THEN kw[CHOOSE i \in 1 .. Len(kw) : kw[i].name = name].value
    ELSE None

\* criteria handed to filter(): over the type's own fields and id, at most
\* MaxCrit of them, each with an absent value or a value a caller would pass
CritValues(sql_type) ==
    CASE sql_type = "INTEGER" -> {None, IntV(1)}
      [] sql_type = "TEXT" -> {None, TextV("a"), IntV(1)}
      [] sql_type = "REAL" -> {None, RealV(15)}

CritFields(fields) ==
    IF "id" \in FieldNames(fields) THEN fields
    ELSE <<OrmInteger("id", TRUE)>> \o fields

RECURSIVE CritFrom(_, _)
CritFrom(fields, i) ==
    IF i > Len(fields) THEN {<<>>}
    ELSE LET rest == CritFrom(fields, i + 1)
         IN rest \cup
            {<<[name |-> fields[i].name, value |-> v]>> \o kw :
                v \in CritValues(fields[i].sql_type),
                kw \in {x \in rest : Len(x) < MaxCrit}}

FilterKwargs == [fl \in FieldLists |-> CritFrom(CritFields(fl), 1)]

(***************************************************************************)
(* State.                                                                  *)
(*   cls        the class object the program works with (the last one a    *)
(*              class statement built; at start the base type OrmModel)    *)
(*   inst       the instance built from it, until the next class-level call*)
(*   tables     the database file: table name -> table                     *)
(*   ret        the last call: what it was, how it ended, what it returned,*)
(*              how many statements it executed, and the database before it*)
(*   openConns  connections opened and not closed yet                      *)
(*   inserted   per table, the rows successful save() calls stored, in     *)
(*              call order                                                 *)
(***************************************************************************)
NoInst == [live |-> FALSE, cls |-> BaseClass, vals |-> <<>>]
NoDecl == [name |-> "", fields |-> <<>>]

Ret(op, outcome, rows, stmts, args, decl, before) ==
    [op |-> op, outcome |-> outcome, rows |-> rows, stmts |-> stmts,
     args |-> args, decl |-> decl, before |-> before]

\* a connection the call opened is not closed by the with-block: it is
\* closed when the interpreter finalizes the connection object, which may be
\* at once or later
Connect(n) == {m \in {n, n + 1} : m <= MaxOpenConns}

Init ==
    /\ cls = BaseClass
    /\ inst = NoInst
    /\ tables = [t \in TableNames |-> NoTable]
    /\ ret = Ret("import", "ok", <<>>, 0, <<>>, NoDecl,
                 [t \in TableNames |-> NoTable])
    /\ openConns = 0
    /\ inserted = [t \in TableNames |-> <<>>]

(***************************************************************************)
(* OrmModelMeta.__new__ and _create_table                                  *)
(***************************************************************************)
\* the column clause of one field, main.py lines 74-81
FieldDefinition(field) ==
    [name |-> field.name,
     sql_type |-> field.sql_type,
     qual |-> IF field.primary_key
              THEN IF field.sql_type = "INTEGER"
                   THEN "PRIMARY KEY AUTOINCREMENT"
                   ELSE "PRIMARY KEY"
              ELSE ""]

IdDefinition ==
    [name |-> "id", sql_type |-> "INTEGER", qual |-> "PRIMARY KEY AUTOINCREMENT"]

\* fields.append instead of fields.insert(0, ...): id comes last
ColumnDefs_idLast(fields) ==
    LET defs == [i \in 1 .. Len(fields) |-> FieldDefinition(fields[i])]
    IN IF HasPk(fields) THEN defs ELSE defs \o <<IdDefinition>>

\* the column list of the CREATE TABLE statement, main.py lines 70-83
ColumnDefs(fields) ==
    LET defs == [i \in 1 .. Len(fields) |-> FieldDefinition(fields[i])]
    IN IF HasPk(fields) THEN defs ELSE <<IdDefinition>> \o defs

_create_table(c, db) == CreateTableIfNotExists(db, c.table, ColumnDefs(c.fields))

\* class <name>(OrmModel): <fields>
Declare(name, fields) ==
    LET c == ClassObject(name, fields)
        d == [name |-> name, fields |-> fields]
    IN IF name # BaseName
       THEN LET r == _create_table(c, tables)
            IN /\ tables' = r.db
               /\ cls' = IF r.outcome = "ok" THEN c ELSE cls
               /\ ret' = Ret("declare", r.outcome, <<>>, 1, <<>>, d, tables)
               /\ openConns' \in Connect(openConns)
               /\ inst' = NoInst
               /\ UNCHANGED inserted
       ELSE /\ cls' = c
            /\ ret' = Ret("declare", "ok", <<>>, 0, <<>>, d, tables)
            /\ inst' = NoInst
            /\ UNCHANGED <<tables, openConns, inserted>>

(***************************************************************************)
(* OrmModel.__init__                                                       *)
(***************************************************************************)
__init__(kwargs) ==
    /\ inst' = [live |-> TRUE, cls |-> cls,
                vals |-> [i \in 1 .. Len(cls.fields) |->
                            Get(kwargs, cls.fields[i].name)]]
    /\ ret' = Ret("init", "ok", <<>>, 0, <<>>, NoDecl, tables)
    /\ UNCHANGED <<cls, tables, openConns, inserted>>

(***************************************************************************)
(* OrmModel.save                                                           *)
(***************************************************************************)
\* a loop that validates the first field only
FirstMismatch_firstOnly(fields, vals) ==
    IF /\ fields # <<>>
       /\ ~fields[1].primary_key
       /\ ~IsInstance(vals[1], fields[1].sql_type)
    THEN 1 ELSE 0

\* the first field the validation loop rejects, 0 if none, lines 112-122
FirstMismatch(fields, vals) ==
    LET bad == {i \in 1 .. Len(fields) :
                   /\ ~fields[i].primary_key
                   /\ ~IsInstance(vals[i], fields[i].sql_type)}
    IN IF bad = {} THEN 0 ELSE CHOOSE i \in bad : \A j \in bad : i <= j

\* column names listed in the reverse of the order of the values
InsertColumns_reversed(fields) ==
    [i \in 1 .. Len(fields) |-> fields[Len(fields) + 1 - i].name]

\* fields_to_insert.keys(), line 126
InsertColumns(fields) == [i \in 1 .. Len(fields) |-> fields[i].name]

save ==
    /\ inst.live
    /\ LET fields == inst.cls.fields
           tname == inst.cls.table
       IN IF FirstMismatch(fields, inst.vals) # 0
          THEN /\ ret' = Ret("save", "TypeError", <<>>, 0, <<>>, NoDecl, tables)
               /\ UNCHANGED <<tables, inserted>>
          ELSE LET r == InsertInto(tables, tname, InsertColumns(fields), inst.vals)
               IN /\ r.outcome = "ok" => Len(tables[tname].rows) < MaxRows
                  /\ tables' = r.db
                  /\ ret' = Ret("save", r.outcome, <<>>, 1, <<>>, NoDecl, tables)
                  /\ inserted' =
                       IF r.outcome = "ok"
                       THEN [inserted EXCEPT ![tname] = Append(@, r.row)]
                       ELSE inserted
    /\ openConns' \in Connect(openConns)
    /\ UNCHANGED <<cls, inst>>

(***************************************************************************)
(* OrmModel.all and OrmModel.filter                                        *)
(***************************************************************************)
\* cursor.fetchmany(1)
FetchAll_one(rows) == IF rows = <<>> THEN <<>> ELSE <<rows[1]>>

\* cursor.fetchall(), lines 140 and 148
FetchAll(rows) == rows

all ==
    LET r == SelectFrom(tables, cls.table, FALSE, <<>>)
    IN /\ ret' = Ret("all", r.outcome, FetchAll(r.rows), 1, <<>>, NoDecl, tables)
       /\ openConns' \in Connect(openConns)
       /\ inst' = NoInst
       /\ UNCHANGED <<cls, tables, inserted>>

\* WHERE only when there are criteria
WhereClause_ifAny(kwargs) == kwargs # <<>>

\* the statement always carries WHERE, line 146
WhereClause(kwargs) == TRUE

\* only the first keyword becomes a condition
Conditions_firstOnly(kwargs) ==
    IF kwargs = <<>> THEN <<>>
    ELSE <<[name |-> kwargs[1].name, value |-> kwargs[1].value]>>

\* each keyword becomes  k = ?  bound to its value, lines 145 and 147
Conditions(kwargs) ==
    [i \in 1 .. Len(kwargs) |-> [name |-> kwargs[i].name, value |-> kwargs[i].value]]

filter(kwargs) ==
    LET r == SelectFrom(tables, cls.table, WhereClause(kwargs), Conditions(kwargs))
    IN /\ ret' = Ret("filter", r.outcome, FetchAll(r.rows), 1, kwargs, NoDecl, tables)
       /\ openConns' \in Connect(openConns)
       /\ inst' = NoInst
       /\ UNCHANGED <<cls, tables, inserted>>

(***************************************************************************)
(* The interpreter finalizes a connection object that is garbage.          *)
(***************************************************************************)
Finalize ==
    /\ openConns > 0
    /\ openConns' = openConns - 1
    /\ UNCHANGED <<cls, inst, tables, ret, inserted>>

Next ==
    \/ \E d \in DeclInputs : Declare(d[1], d[2])
    \/ \E kw \in InitKwargs[cls.fields] : __init__(kw)
    \/ save
    \/ all
    \/ \E kw \in FilterKwargs[cls.fields] : filter(kw)
    \/ Finalize

Spec == Init /\ [][Next]_vars

(***************************************************************************)
(* The claims.                                                             *)
(***************************************************************************)
\* the host type a field of a given SQL type expects
OfType(v, sql_type) ==
    \/ (sql_type = "INTEGER" /\ v.k = "int")
    \/ (sql_type = "TEXT" /\ v.k = "text")
    \/ (sql_type = "REAL" /\ v.k = "real")

\* the column list the specification describes for a type's fields
ClaimedColumns(fields) ==
    LET synth == ~\E i \in 1 .. Len(fields) : fields[i].primary_key
        off == IF synth THEN 1 ELSE 0
        col(f) == [name |-> f.name, sql_type |-> f.sql_type,
                   qual |-> IF ~f.primary_key THEN ""
                            ELSE IF f.sql_type = "INTEGER"
                            THEN "PRIMARY KEY AUTOINCREMENT"
                            ELSE "PRIMARY KEY"]
    IN [i \in 1 .. Len(fields) + off |->
          IF synth /\ i = 1
          THEN [name |-> "id", sql_type |-> "INTEGER",
                qual |-> "PRIMARY KEY AUTOINCREMENT"]
          ELSE col(fields[i - off])]

NumPk(fields) == Cardinality({i \in 1 .. Len(fields) : fields[i].primary_key})

\* a declaration the database accepts when it has to create the table
Accepted(fields) ==
    /\ NumPk(fields) <= 1
    /\ NumPk(fields) = 1 \/ "id" \notin FieldNames(fields)

DeclaredRecordType == ret.op = "declare" /\ ret.decl.name # BaseName
DeclTable == Lower(ret.decl.name)

\* C1 as written: declaring a record type other than the base type creates a
\* table named as the lowercased type name whose columns are the declared
\* fields in order, primary-key fields qualified, with id INTEGER PRIMARY KEY
\* AUTOINCREMENT first iff no field is a primary key.
C1_DeclareAlwaysCreates ==
    DeclaredRecordType =>
        /\ ret.outcome = "ok"
        /\ tables[DeclTable].exists
        /\ tables[DeclTable].cols = ClaimedColumns(ret.decl.fields)

\* C1 amended: when no table of that name exists yet, the declaration creates
\* the table with exactly those columns and no rows if at most one field is
\* a primary key and no non-key field is named id; otherwise the statement
\* fails with a database error and no table is created.
C1_DeclareCreatesTable ==
    (DeclaredRecordType /\ ~ret.before[DeclTable].exists) =>
        IF Accepted(ret.decl.fields)
        THEN /\ ret.outcome = "ok"
             /\ tables[DeclTable] =
                  [exists |-> TRUE, cols |-> ClaimedColumns(ret.decl.fields),
                   rows |-> <<>>]
             /\ \A t \in TableNames \ {DeclTable} : tables[t] = ret.before[t]
        ELSE /\ ret.outcome = "OperationalError"
             /\ tables = ret.before

C1_Witness ==
    /\ DeclaredRecordType
    /\ ~ret.before[DeclTable].exists
    /\ tables[DeclTable].exists
    /\ NumPk(ret.decl.fields) = 0
    /\ Len(ret.decl.fields) = 2
    /\ Len(tables[DeclTable].cols) = 3

\* the saved instance and its table
SavedFields == inst.cls.fields
SavedTable == inst.cls.table
SaveMismatch ==
    \E i \in 1 .. Len(SavedFields) :
        /\ ~SavedFields[i].primary_key
        /\ ~OfType(inst.vals[i], SavedFields[i].sql_type)

\* C2: save() with a non-primary-key value of the wrong type raises the
\* type-mismatch error before any statement executes and leaves every table
\* as it was, whichever field mismatches.
C2_MismatchRaisesBeforeWrite ==
    (ret.op = "save" /\ SaveMismatch) =>
        /\ ret.outcome = "TypeError"
        /\ ret.stmts = 0
        /\ tables = ret.before

C2_Witness ==
    /\ ret.op = "save"
    /\ ret.outcome = "TypeError"
    /\ Len(SavedFields) = 2
    /\ OfType(inst.vals[1], SavedFields[1].sql_type)
    /\ ~SavedFields[2].primary_key
    /\ inst.vals[2].k = "text"
    /\ Len(tables[SavedTable].rows) > 0

\* the row a successful save() added to its table
NewRow ==
    LET old == ret.before[SavedTable].rows
        new == tables[SavedTable].rows
        ids == {old[i].rowid : i \in 1 .. Len(old)}
    IN new[CHOOSE i \in 1 .. Len(new) : new[i].rowid \notin ids]

OneRowAdded ==
    LET old == ret.before[SavedTable].rows
        new == tables[SavedTable].rows
    IN /\ Len(new) = Len(old) + 1
       /\ \A i \in 1 .. Len(old) : \E j \in 1 .. Len(new) : new[j] = old[i]
       /\ \A t \in TableNames \ {SavedTable} : tables[t] = ret.before[t]
       /\ tables[SavedTable].cols = ret.before[SavedTable].cols

SavedCol(i) == ColIndex(tables[SavedTable], SavedFields[i].name)

\* C3 as written: save() with every non-primary-key value of its type
\* succeeds and adds one row whose values are the instance's, the primary
\* key auto-assigned when absent.
C3_ValidSaveAlwaysAdds ==
    (ret.op = "save" /\ ~SaveMismatch /\ SavedTable # Lower(BaseName)) =>
        /\ ret.outcome = "ok"
        /\ OneRowAdded
        /\ \A i \in 1 .. Len(SavedFields) :
              IF SavedFields[i].primary_key /\ inst.vals[i] = None
              THEN NewRow.vals[SavedCol(i)] # None
              ELSE PyEq(NewRow.vals[SavedCol(i)], inst.vals[i])

\* the table was created from the declaration of the saved type
OwnTable ==
    /\ tables[SavedTable].exists
    /\ tables[SavedTable].cols = ClaimedColumns(SavedFields)

\* the primary-key value is absent, or of its type and not in the table yet
PkFresh ==
    \A i \in 1 .. Len(SavedFields) :
        SavedFields[i].primary_key =>
            \/ inst.vals[i] = None
            \/ /\ OfType(inst.vals[i], SavedFields[i].sql_type)
               /\ \A j \in 1 .. Len(ret.before[SavedTable].rows) :
                     ret.before[SavedTable].rows[j].vals[SavedCol(i)] # inst.vals[i]

\* C3 amended: such a save() either fails with a database error, adding
\* nothing, or adds exactly one row. On the table its own type created, with
\* at least one field and the primary key absent or a new value of its type,
\* it succeeds, and the row holds the instance's values; an absent INTEGER
\* key (id or declared) is assigned by the database, an absent TEXT or REAL
\* key is stored as null.
C3_ValidSaveAddsOneRow ==
    (ret.op = "save" /\ ~SaveMismatch) =>
        /\ ret.outcome \in {"ok", "OperationalError", "IntegrityError"}
        /\ ret.stmts = 1
        /\ (ret.outcome # "ok") => (tables = ret.before)
        /\ (OwnTable /\ SavedFields # <<>> /\ PkFresh) => (ret.outcome = "ok")
        /\ ret.outcome = "ok" => OneRowAdded
        /\ (ret.outcome = "ok" /\ OwnTable) =>
              /\ \A i \in 1 .. Len(SavedFields) :
                    LET f == SavedFields[i]
                        v == NewRow.vals[SavedCol(i)]
                    IN /\ (~f.primary_key) => (v = inst.vals[i])
                       /\ (f.primary_key /\ OfType(inst.vals[i], f.sql_type))
                             => (v = inst.vals[i])
                       /\ (f.primary_key /\ inst.vals[i] = None) =>
                             (IF f.sql_type = "INTEGER"
                              THEN v.k = "int" ELSE v = None)
              /\ (~HasPk(SavedFields)) => (NewRow.vals[1].k = "int")

C3_Witness ==
    /\ ret.op = "save"
    /\ ret.outcome = "ok"
    /\ OwnTable
    /\ Len(tables[SavedTable].rows) = 2
    /\ \E i \in 1 .. Len(SavedFields) :
          /\ SavedFields[i].primary_key
          /\ SavedFields[i].sql_type = "INTEGER"
          /\ inst.vals[i] = None

Count(seq, x) == Cardinality({i \in 1 .. Len(seq) : seq[i] = x})
SameBag(a, b) ==
    /\ Len(a) = Len(b)
    /\ \A i \in 1 .. Len(a) : Count(a, a[i]) = Count(b, a[i])

RecordType == cls.table # Lower(BaseName)

\* C4: all() on a declared record type returns exactly as many row tuples as
\* save() calls succeeded on its table, each the row one of them stored,
\* whatever failed saves, all() and filter() calls came in between; none when
\* nothing was saved.
C4_AllReturnsEverySavedRow ==
    (ret.op = "all" /\ RecordType) =>
        /\ ret.outcome = "ok"
        /\ SameBag(ret.rows, inserted[cls.table])
        /\ tables = ret.before

C4_Witness ==
    /\ ret.op = "all"
    /\ RecordType
    /\ Len(ret.rows) = 2
    /\ ret.rows[1] # ret.rows[2]
    /\ Len(inserted[cls.table]) = 2

CritTable == tables[cls.table]
CritKnown == \A i \in 1 .. Len(ret.args) : ret.args[i].name \in ColNames(CritTable)
CritCol(i) == ColIndex(CritTable, ret.args[i].name)
RowsWhere(P(_)) ==
    LET found == SelectSeq(CritTable.rows, P)
    IN [i \in 1 .. Len(found) |-> found[i].vals]

\* C5 as written: filter() with criteria returns exactly the rows in which
\* every named column equals the supplied value.
C5_FilterReturnsEqualRows ==
    (ret.op = "filter" /\ ret.args # <<>> /\ RecordType /\ CritKnown) =>
        /\ ret.outcome = "ok"
        /\ ret.rows = RowsWhere(LAMBDA r : \A i \in 1 .. Len(ret.args) :
                                   PyEq(r.vals[CritCol(i)], ret.args[i].value))

\* C5 amended: with every criterion naming a column of the table, filter()
\* returns exactly the rows in which every named column equals the supplied
\* value when the values are non-null and of their columns' types, and no row
\* when a supplied value is null (a null column matches nothing); a criterion
\* naming no column of the table fails with a database error. The table is
\* left as it was.
C5_FilterReturnsMatchingRows ==
    (ret.op = "filter" /\ ret.args # <<>> /\ RecordType) =>
        /\ tables = ret.before
        /\ IF CritKnown
           THEN /\ ret.outcome = "ok"
                /\ (\E i \in 1 .. Len(ret.args) : ret.args[i].value = None)
                      => ret.rows = <<>>
                /\ (\A i \in 1 .. Len(ret.args) :
                       OfType(ret.args[i].value,
                              CritTable.cols[CritCol(i)].sql_type))
                      => ret.rows =
                           RowsWhere(LAMBDA r : \A i \in 1 .. Len(ret.args) :
                              r.vals[CritCol(i)] = ret.args[i].value)
           ELSE ret.outcome = "OperationalError" /\ ret.rows = <<>>

C5_Witness ==
    /\ ret.op = "filter"
    /\ RecordType
    /\ Len(ret.args) = 2
    /\ \A i \in 1 .. 2 : ret.args[i].value # None
    /\ Len(CritTable.rows) = 2
    /\ Len(ret.rows) = 1

\* C6: filter() with no criteria never returns rows: the statement ends in
\* an empty WHERE and the database rejects it, whatever the table holds, and
\* the table is left as it was.
C6_EmptyFilterFails ==
    (ret.op = "filter" /\ ret.args = <<>>) =>
        /\ ret.outcome = "OperationalError"
        /\ ret.rows = <<>>
        /\ tables = ret.before

C6_Witness ==
    /\ ret.op = "filter"
    /\ ret.args = <<>>
    /\ RecordType
    /\ Len(CritTable.rows) = 2

\* C7: no connection an operation opened is open once the operation has
\* returned or raised: the number of open connections between operations is
\* zero.
C7_NoConnectionLeftOpen == openConns = 0

\* C8: a persisted row is never updated or deleted: every row of every table
\* is there with the same values after any step, and all() and filter() leave
\* every table as it was.
C8_RowsNeverChange ==
    [][/\ \A t \in TableNames :
             /\ tables[t].exists => tables'[t].exists
             /\ \A i \in 1 .. Len(tables[t].rows) :
                   \E j \in 1 .. Len(tables'[t].rows) :
                      tables'[t].rows[j] = tables[t].rows[i]
       /\ (ret'.op \in {"all", "filter", "init"} /\ ret' # ret) => tables' = tables
      ]_vars

C8_Witness ==
    /\ ret.op = "save"
    /\ ret.outcome = "IntegrityError"
    /\ Len(tables[SavedTable].rows) = 2
    /\ tables = ret.before

\* C9: declaring a record type whose table already exists, under the same or
\* another type name that lowercases to the table's, succeeds silently and
\* leaves the table's columns and rows as they were: the schema of the first
\* declaration stays in force.
C9_DeclareIsIdempotent ==
    (DeclaredRecordType /\ ret.before[DeclTable].exists) =>
        /\ ret.outcome = "ok"
        /\ tables = ret.before
        /\ cls = ClassObject(ret.decl.name, ret.decl.fields)

C9_Witness ==
    /\ DeclaredRecordType
    /\ ret.decl.name = "USER"
    /\ ret.before[DeclTable].exists
    /\ Len(tables[DeclTable].rows) = 2
    /\ tables[DeclTable].cols # ClaimedColumns(ret.decl.fields)

====
